---- MODULE Spec2Model ----
(***************************************************************************)
(* fred_rss_tui: the Input Loop (run_app) and the Worker (start_tokio /    *)
(* Network) sharing one App behind a tokio Mutex, connected by a std mpsc  *)
(* channel of IoEvent::GetChannel(feed) messages.                          *)
(*                                                                         *)
(* Abstractions: a Feed is its position in the configured list; an         *)
(* rss::Item is the number of the request whose response carried it; the   *)
(* terminal drawing is reduced to the one indexing it performs on App.     *)
(* usize is scaled down to UsizeBits bits.                                 *)
(***************************************************************************)
EXTENDS Integers, Sequences, FiniteSets, TLC

\* ---------------------------------------------------------------- bounds
MaxFeeds == 2      \* configured feeds: 0..MaxFeeds
MaxItems == 1      \* items of a fetched channel: 0..MaxItems
MaxReq == 2        \* requests sent over the channel in one run
MaxDepth == 2      \* cap on App.stacking
UsizeBits == 2     \* width of usize in the model

UsizeMod == 2 ^ UsizeBits
USIZE_MAX == UsizeMod - 1

\* Option::None of ListState.selected and of App.selected_feed
None == -1

VARIABLES
  feed_data,        \* App.feed_data (app.feeds in run_app): StatefulList<Feed> [items, state]
  news_data,        \* App.news_data: Option<StatefulList<Item>> [some, items, state]
  selected_feed,    \* App.selected_feed: None or a feed
  is_loading,       \* App.is_loading
  selected_view,    \* App.selected_view: "FeedView" | "NewsView"
  news_index,       \* App.news_index
  stacking,         \* App.stacking
  lock,             \* owner of the Mutex<App>: "free" | "input" | "worker"
  io_rx,            \* messages in the mpsc channel, oldest first
  ipc,              \* Input Loop position: "lock" | "draw" | "poll" | "exited" | "aborted"
  wpc,              \* Worker position: "recv" | "get" | "bytes" | "lock_merge" | "merge"
                    \*                  | "lock_clear" | "clear" | "dead"
  io_event,         \* the request the Worker is handling: [id, feed]
  result,           \* the Worker's local fetch result: [kind, n]
  overflow_checks,  \* build profile: TRUE = arithmetic overflow panics (debug)
  nreq,             \* history: number of requests sent so far (ids 1..nreq)
  started,          \* history: ids in the order the Worker received them
  ended,            \* history: id -> how its fetch ended ("no" while it has not)
  clears            \* history: id -> times the Worker cleared is_loading for it

app == <<feed_data, news_data, selected_feed, is_loading, selected_view,
         news_index, stacking>>
hist == <<nreq, started, ended, clears>>
vars == <<feed_data, news_data, selected_feed, is_loading, selected_view,
          news_index, stacking, lock, io_rx, ipc, wpc, io_event, result,
          overflow_checks, nreq, started, ended, clears>>

Ids == 1 .. MaxReq
NoEvent == [id |-> 0, feed |-> 0]
NoResult == [kind |-> "none", n |-> 0]
NoNews == [some |-> FALSE, items |-> <<>>, state |-> None]

\* ------------------------------------------------------- StatefulList<T>
with_items(items) == [items |-> items, state |-> None]

\* len - 1 on usize: panics under overflow checks, wraps otherwise
LenMinusOne(l) == (Len(l.items) - 1) % UsizeMod

Underflows(l, oc) == oc /\ Len(l.items) = 0

\* faulty variant of next: stops at the last index instead of wrapping
next_clamping(l) ==
  IF l.state = None THEN [l EXCEPT !.state = 0]
  ELSE IF l.state >= LenMinusOne(l) THEN l
  ELSE [l EXCEPT !.state = l.state + 1]

\* faulty variant of next: wraps one step late (> for >=)
next_wrapping_late(l) ==
  IF l.state = None THEN [l EXCEPT !.state = 0]
  ELSE IF l.state > LenMinusOne(l) THEN [l EXCEPT !.state = 0]
  ELSE [l EXCEPT !.state = l.state + 1]

next(l) ==
  IF l.state = None THEN [l EXCEPT !.state = 0]
  ELSE IF l.state >= LenMinusOne(l) THEN [l EXCEPT !.state = 0]
  ELSE [l EXCEPT !.state = l.state + 1]

next_panics(l, oc) == l.state # None /\ Underflows(l, oc)

previous(l) ==
  IF l.state = None THEN [l EXCEPT !.state = 0]
  ELSE IF l.state = 0 THEN [l EXCEPT !.state = LenMinusOne(l)]
  ELSE [l EXCEPT !.state = l.state - 1]

previous_panics(l, oc) == l.state = 0 /\ Underflows(l, oc)

unselect(l) == [l EXCEPT !.state = None]

\* ------------------------------------------------------------------ App
Feeds(k) == [i \in 1 .. k |-> i]

\* the items of the channel that answered request id with n items
Items(id, n) == [i \in 1 .. n |-> id]

set_feed(id, n) == [some |-> TRUE, items |-> Items(id, n), state |-> None]

\* App.navigation_stack as run_app and ui read it
navigation_stack == IF stacking = 0 THEN "Main" ELSE "Item"

ProcessAlive == ipc \notin {"exited", "aborted"}

\* the Receiver lives until the Worker thread unwinds
RxAlive == wpc # "dead"

Init ==
  /\ \E k \in 0 .. MaxFeeds : feed_data = with_items(Feeds(k))
  /\ news_data = NoNews
  /\ selected_feed = None
  /\ is_loading = FALSE
  /\ selected_view = "FeedView"
  /\ news_index = 0
  /\ stacking = 0
  /\ lock = "free"
  /\ io_rx = <<>>
  /\ ipc = "lock"
  /\ wpc = "recv"
  /\ io_event = NoEvent
  /\ result = NoResult
  /\ overflow_checks \in BOOLEAN
  /\ nreq = 0
  /\ started = <<>>
  /\ ended = [i \in Ids |-> "no"]
  /\ clears = [i \in Ids |-> 0]

\* ----------------------------------------------------------- Input Loop
\* the MutexGuard is dropped at the end of the loop body
EndIteration == lock' = "free" /\ ipc' = "lock"

\* a panic unwinds run_app and main: the guard is dropped, the process ends
InputPanic == lock' = "free" /\ ipc' = "aborted"

InputLock ==
  /\ ipc = "lock"
  /\ lock = "free"
  /\ lock' = "input"
  /\ ipc' = "draw"
  /\ UNCHANGED <<app, io_rx, wpc, io_event, result, overflow_checks, hist>>

\* terminal.draw(ui): the detail pane indexes news_data.items[news_index]
DrawPanics ==
  /\ navigation_stack = "Item"
  /\ news_data.some
  /\ news_index >= Len(news_data.items)

Draw ==
  /\ ipc = "draw"
  /\ IF DrawPanics THEN InputPanic ELSE (ipc' = "poll" /\ lock' = lock)
  /\ UNCHANGED <<app, io_rx, wpc, io_event, result, overflow_checks, hist>>

\* poll timed out, or the event is none of the handled keys
Tick ==
  /\ ipc = "poll"
  /\ EndIteration
  /\ UNCHANGED <<app, io_rx, wpc, io_event, result, overflow_checks, hist>>

\* faulty variant of switch_view: FeedView is never selected again
switch_view_one_way(v) == "NewsView"

\* App::switch_view
switch_view(v) == IF v = "FeedView" THEN "NewsView" ELSE "FeedView"

KeySwitchView ==
  /\ ipc = "poll"
  /\ selected_view' = switch_view(selected_view)
  /\ EndIteration
  /\ UNCHANGED <<feed_data, news_data, selected_feed, is_loading, news_index, stacking>>
  /\ UNCHANGED <<io_rx, wpc, io_event, result, overflow_checks, hist>>

\* faulty variant of back: leaves every level of drill-down at once
back_to_list ==
  /\ news_index' = 0
  /\ stacking' = 0

\* App::back
back ==
  /\ news_index' = 0
  /\ stacking' = stacking - 1

KeyQuit ==
  /\ ipc = "poll"
  /\ IF navigation_stack = "Main"
       THEN /\ lock' = "free"
            /\ ipc' = "exited"
            /\ UNCHANGED <<news_index, stacking>>
       ELSE /\ back
            /\ EndIteration
  /\ UNCHANGED <<feed_data, news_data, selected_feed, is_loading, selected_view>>
  /\ UNCHANGED <<io_rx, wpc, io_event, result, overflow_checks, hist>>

KeyUnselect ==
  /\ ipc = "poll"
  /\ feed_data' = unselect(feed_data)
  /\ EndIteration
  /\ UNCHANGED <<news_data, selected_feed, is_loading, selected_view, news_index, stacking>>
  /\ UNCHANGED <<io_rx, wpc, io_event, result, overflow_checks, hist>>

\* 'j': FeedView => feeds.next(), NewsView => news_data.as_mut().unwrap().next()
KeyNext ==
  /\ ipc = "poll"
  /\ IF selected_view = "FeedView"
       THEN IF next_panics(feed_data, overflow_checks)
              THEN InputPanic /\ UNCHANGED <<feed_data, news_data>>
              ELSE /\ feed_data' = next(feed_data)
                   /\ EndIteration
                   /\ UNCHANGED news_data
       ELSE IF ~news_data.some \/ next_panics(news_data, overflow_checks)
              THEN InputPanic /\ UNCHANGED <<feed_data, news_data>>
              ELSE /\ news_data' = next(news_data)
                   /\ EndIteration
                   /\ UNCHANGED feed_data
  /\ UNCHANGED <<selected_feed, is_loading, selected_view, news_index, stacking>>
  /\ UNCHANGED <<io_rx, wpc, io_event, result, overflow_checks, hist>>

\* 'k': FeedView => feeds.previous(), NewsView => news_data.as_mut().unwrap().previous()
KeyPrevious ==
  /\ ipc = "poll"
  /\ IF selected_view = "FeedView"
       THEN IF previous_panics(feed_data, overflow_checks)
              THEN InputPanic /\ UNCHANGED <<feed_data, news_data>>
              ELSE /\ feed_data' = previous(feed_data)
                   /\ EndIteration
                   /\ UNCHANGED news_data
       ELSE IF ~news_data.some \/ previous_panics(news_data, overflow_checks)
              THEN InputPanic /\ UNCHANGED <<feed_data, news_data>>
              ELSE /\ news_data' = previous(news_data)
                   /\ EndIteration
                   /\ UNCHANGED feed_data
  /\ UNCHANGED <<selected_feed, is_loading, selected_view, news_index, stacking>>
  /\ UNCHANGED <<io_rx, wpc, io_event, result, overflow_checks, hist>>

\* faulty variant of dispatch: a failed send leaves is_loading set
dispatch_keeping_flag(feed) ==
  IF RxAlive
    THEN /\ is_loading' = TRUE
         /\ io_rx' = Append(io_rx, [id |-> nreq + 1, feed |-> feed])
         /\ nreq' = nreq + 1
    ELSE /\ is_loading' = TRUE
         /\ UNCHANGED <<io_rx, nreq>>

\* faulty variant of dispatch: is_loading is not set before the send
dispatch_without_flag(feed) ==
  IF RxAlive
    THEN /\ is_loading' = is_loading
         /\ io_rx' = Append(io_rx, [id |-> nreq + 1, feed |-> feed])
         /\ nreq' = nreq + 1
    ELSE /\ is_loading' = FALSE
         /\ UNCHANGED <<io_rx, nreq>>

\* App::dispatch(IoEvent::GetChannel(feed))
dispatch(feed) ==
  IF RxAlive
    THEN /\ is_loading' = TRUE
         /\ io_rx' = Append(io_rx, [id |-> nreq + 1, feed |-> feed])
         /\ nreq' = nreq + 1
    ELSE /\ is_loading' = FALSE
         /\ UNCHANGED <<io_rx, nreq>>

\* App::view_feed_under_cursor: None => panic!(), Some(i) => items[i]
ViewFeedPanics ==
  \/ feed_data.state = None
  \/ feed_data.state >= Len(feed_data.items)

\* App::view_news_under_cursor
view_news_under_cursor ==
  /\ stacking' = stacking + 1
  /\ news_index' = IF news_data.some /\ news_data.state # None
                     THEN news_data.state
                     ELSE IF news_data.some THEN 0 ELSE news_index

KeyEnterFeed ==
  /\ ipc = "poll"
  /\ selected_view = "FeedView"
  /\ IF ViewFeedPanics
       THEN InputPanic /\ UNCHANGED <<is_loading, io_rx, nreq>>
       ELSE /\ RxAlive => nreq < MaxReq
            /\ dispatch(feed_data.items[feed_data.state + 1])
            /\ EndIteration
  /\ UNCHANGED <<feed_data, news_data, selected_feed, selected_view, news_index, stacking>>
  /\ UNCHANGED <<wpc, io_event, result, overflow_checks, started, ended, clears>>

KeyEnterNews ==
  /\ ipc = "poll"
  /\ selected_view = "NewsView"
  /\ stacking < MaxDepth
  /\ view_news_under_cursor
  /\ EndIteration
  /\ UNCHANGED <<feed_data, news_data, selected_feed, is_loading, selected_view>>
  /\ UNCHANGED <<io_rx, wpc, io_event, result, overflow_checks, hist>>

\* --------------------------------------------------------------- Worker
\* faulty variant of WorkerRecv: the newest message is taken first
WorkerRecvNewest ==
  /\ ProcessAlive
  /\ wpc = "recv"
  /\ io_rx # <<>>
  /\ io_event' = io_rx[Len(io_rx)]
  /\ io_rx' = SubSeq(io_rx, 1, Len(io_rx) - 1)
  /\ started' = Append(started, io_rx[Len(io_rx)].id)
  /\ wpc' = "get"
  /\ UNCHANGED <<app, lock, ipc, result, overflow_checks, nreq, ended, clears>>

\* faulty variant of WorkerRecv: the App lock is taken before the fetch starts
WorkerRecvLocking ==
  /\ ProcessAlive
  /\ wpc = "recv"
  /\ io_rx # <<>>
  /\ lock = "free"
  /\ lock' = "worker"
  /\ io_event' = Head(io_rx)
  /\ io_rx' = Tail(io_rx)
  /\ started' = Append(started, Head(io_rx).id)
  /\ wpc' = "get"
  /\ UNCHANGED <<app, ipc, result, overflow_checks, nreq, ended, clears>>

\* while let Ok(io_event) = io_rx.recv()
WorkerRecv ==
  /\ ProcessAlive
  /\ wpc = "recv"
  /\ io_rx # <<>>
  /\ io_event' = Head(io_rx)
  /\ io_rx' = Tail(io_rx)
  /\ started' = Append(started, Head(io_rx).id)
  /\ wpc' = "get"
  /\ UNCHANGED <<app, lock, ipc, result, overflow_checks, nreq, ended, clears>>

\* reqwest::get(url).await
WorkerGet ==
  /\ ProcessAlive
  /\ wpc = "get"
  /\ \/ wpc' = "bytes" /\ UNCHANGED result
     \/ wpc' = "lock_clear" /\ result' = [kind |-> "net", n |-> 0]
  /\ UNCHANGED <<app, lock, io_rx, ipc, io_event, overflow_checks, hist>>

\* result.bytes().await, then Channel::read_from, then self.app.lock().await is next
WorkerBytes ==
  /\ ProcessAlive
  /\ wpc = "bytes"
  /\ \/ wpc' = "lock_clear" /\ result' = [kind |-> "net", n |-> 0]
     \/ wpc' = "lock_merge" /\ result' = [kind |-> "parse", n |-> 0]
     \/ \E n \in 0 .. MaxItems :
          wpc' = "lock_merge" /\ result' = [kind |-> "ok", n |-> n]
  /\ UNCHANGED <<app, lock, io_rx, ipc, io_event, overflow_checks, hist>>

WorkerLockMerge ==
  /\ ProcessAlive
  /\ wpc = "lock_merge"
  /\ lock = "free"
  /\ lock' = "worker"
  /\ wpc' = "merge"
  /\ UNCHANGED <<app, io_rx, ipc, io_event, result, overflow_checks, hist>>

\* channel.unwrap() panics on a parse error: the Worker thread unwinds, dropping
\* the guard and the Receiver; otherwise set_feed and selected_feed, guard dropped
WorkerMerge ==
  /\ ProcessAlive
  /\ wpc = "merge"
  /\ lock' = "free"
  /\ IF result.kind = "parse"
       THEN /\ wpc' = "dead"
            /\ ended' = [ended EXCEPT ![io_event.id] = "parse"]
            /\ UNCHANGED <<news_data, selected_feed>>
       ELSE /\ news_data' = set_feed(io_event.id, result.n)
            /\ selected_feed' = io_event.feed
            /\ wpc' = "lock_clear"
            /\ UNCHANGED ended
  /\ UNCHANGED <<feed_data, is_loading, selected_view, news_index, stacking>>
  /\ UNCHANGED <<io_rx, ipc, io_event, result, overflow_checks, nreq, started, clears>>

WorkerLockClear ==
  /\ ProcessAlive
  /\ wpc = "lock_clear"
  /\ lock = "free"
  /\ lock' = "worker"
  /\ wpc' = "clear"
  /\ UNCHANGED <<app, io_rx, ipc, io_event, result, overflow_checks, hist>>

\* faulty variant of WorkerClear: a failed fetch also drops the loaded document
WorkerClearDroppingDocument ==
  /\ ProcessAlive
  /\ wpc = "clear"
  /\ is_loading' = FALSE
  /\ lock' = "free"
  /\ wpc' = "recv"
  /\ ended' = [ended EXCEPT ![io_event.id] = result.kind]
  /\ clears' = [clears EXCEPT ![io_event.id] = @ + 1]
  /\ io_event' = NoEvent
  /\ result' = NoResult
  /\ news_data' = IF result.kind = "net" THEN NoNews ELSE news_data
  /\ UNCHANGED <<feed_data, selected_feed, selected_view, news_index, stacking>>
  /\ UNCHANGED <<io_rx, ipc, overflow_checks, nreq, started>>

\* app.is_loading = false; the guard is dropped; back to recv()
WorkerClear ==
  /\ ProcessAlive
  /\ wpc = "clear"
  /\ is_loading' = FALSE
  /\ lock' = "free"
  /\ wpc' = "recv"
  /\ ended' = [ended EXCEPT ![io_event.id] = result.kind]
  /\ clears' = [clears EXCEPT ![io_event.id] = @ + 1]
  /\ io_event' = NoEvent
  /\ result' = NoResult
  /\ UNCHANGED <<feed_data, news_data, selected_feed, selected_view, news_index, stacking>>
  /\ UNCHANGED <<io_rx, ipc, overflow_checks, nreq, started>>

Next ==
  \/ InputLock
  \/ Draw
  \/ Tick
  \/ KeySwitchView
  \/ KeyQuit
  \/ KeyUnselect
  \/ KeyNext
  \/ KeyPrevious
  \/ KeyEnterFeed
  \/ KeyEnterNews
  \/ WorkerRecv
  \/ WorkerGet
  \/ WorkerBytes
  \/ WorkerLockMerge
  \/ WorkerMerge
  \/ WorkerLockClear
  \/ WorkerClear

Spec == Init /\ [][Next]_vars

\* The Worker runs whenever it can; tokio's Mutex queues its waiters first come
\* first served, so a Worker waiting in lock().await gets the lock; the Input
\* Loop keeps ticking while the process lives.
FairSpec ==
  /\ Spec
  /\ WF_vars(WorkerRecv)
  /\ WF_vars(WorkerGet)
  /\ WF_vars(WorkerBytes)
  /\ SF_vars(WorkerLockMerge)
  /\ WF_vars(WorkerMerge)
  /\ SF_vars(WorkerLockClear)
  /\ WF_vars(WorkerClear)
  /\ WF_vars(InputLock)
  /\ WF_vars(Draw)
  /\ WF_vars(Tick)

\* ---------------------------------------------------------------- claims
\* every Worker step moves wpc; no Input Loop step does
WorkerStep == wpc' # wpc

\* the step in which dispatch() sends a request
DispatchStep == nreq' = nreq + 1

\* the step in which the Worker finishes the request it is handling
CompletionStep == wpc = "clear" /\ wpc' = "recv"

Sent(id) == id <= nreq
Received(id) == \E i \in 1 .. Len(started) : started[i] = id
InFlight(id) == Received(id) /\ ended[id] = "no"

\* C1: dispatch() sets is_loading in the step that enqueues the request, and
\* every request whose fetch has ended (success, network error or parse
\* error) has had is_loading cleared by the Worker exactly once.
C1_LoadingSetThenClearedOnce ==
  [][ /\ DispatchStep =>
           /\ is_loading'
           /\ io_rx' = Append(io_rx, [id |-> nreq',
                                      feed |-> feed_data.items[feed_data.state + 1]])
      /\ \A id \in Ids : clears'[id] <= 1
      /\ \A id \in Ids : ended'[id] # "no" => clears'[id] = 1
    ]_vars

\* C2: the Worker receives requests in the order they were sent, has at most
\* one of them in flight, and while it awaits the Fetcher for a request every
\* earlier request has been merged and has had is_loading cleared.
C2_OneAtATimeInOrder ==
  /\ started = [i \in 1 .. Len(started) |-> i]
  /\ \A i \in 1 .. Len(io_rx) : io_rx[i].id = Len(started) + i
  /\ Cardinality({id \in Ids : InFlight(id)}) <= 1
  /\ wpc \in {"get", "bytes"} =>
       /\ InFlight(io_event.id)
       /\ \A j \in 1 .. io_event.id - 1 : ended[j] \in {"ok", "net"} /\ clears[j] = 1

\* C2 witness: the second request is being fetched after the first was merged
C2_Witness ==
  /\ wpc = "bytes"
  /\ io_event.id = 2
  /\ ended[1] = "ok"
  /\ news_data.some

\* C3: at the step that completes a successful request news_data is the fresh
\* list of its n items with no selection, and is_loading is false.
C3_FreshListAtCompletion ==
  [][ (CompletionStep /\ result.kind = "ok") =>
        /\ news_data' = set_feed(io_event.id, result.n)
        /\ ~is_loading'
    ]_vars

\* C4: no Worker step taken on a request whose fetch ends in a network error
\* changes news_data or selected_feed, and the step completing it leaves
\* is_loading false.
C4_NetworkErrorKeepsDocument ==
  [][ (WorkerStep /\ (result.kind = "net" \/ result'.kind = "net")) =>
        /\ news_data' = news_data
        /\ selected_feed' = selected_feed
        /\ CompletionStep => ~is_loading'
    ]_vars

\* C4 witness: a request ended in a network error and the document loaded
\* before it, with its cursor, is still there
C4_Witness ==
  /\ ended[1] = "ok"
  /\ ended[2] = "net"
  /\ news_data.some
  /\ news_data.items = Items(1, MaxItems)
  /\ news_data.state = 0
  /\ ~is_loading

\* C5: on a parse error no Worker step changes news_data or terminates the
\* Worker, and the request ends with is_loading cleared once.
C5_ParseErrorDiscarded ==
  [][ (WorkerStep /\ result.kind = "parse") =>
        /\ news_data' = news_data
        /\ wpc' # "dead"
        /\ ended'[io_event.id] # "no" => (~is_loading' /\ clears'[io_event.id] = 1)
    ]_vars

\* C6: while the Fetcher awaits the network the Worker does not own the lock.
C6_NoLockWhileFetching == wpc \in {"get", "bytes"} => lock # "worker"

\* C6 witness: the Input Loop holds the lock and handles input during a fetch
C6_Witness ==
  /\ wpc = "bytes"
  /\ lock = "input"
  /\ ipc = "poll"
  /\ feed_data.state = 1

\* C7: whenever the Input Loop is suspended in the keystroke poll the lock is
\* free.
C7_LockFreeWhilePolling == ipc = "poll" => lock = "free"

\* C8: every request sent is eventually completed by the Worker with
\* is_loading cleared for it, as long as the process lives.
C8_EveryRequestCompletes ==
  \A id \in Ids : Sent(id) ~> (clears[id] = 1 \/ ~ProcessAlive)

\* C9: a cursor of the feed list or of the loaded item list is an index into
\* its list.
C9_CursorInBounds ==
  /\ feed_data.state # None => feed_data.state < Len(feed_data.items)
  /\ (news_data.some /\ news_data.state # None) =>
       news_data.state < Len(news_data.items)

\* C10: cursor-next and cursor-previous on an empty list do not panic and
\* leave the cursor None.
C10_EmptyListMoveIsNoOp ==
  [][ /\ ((KeyNext \/ KeyPrevious) /\ selected_view = "FeedView"
             /\ feed_data.items = <<>>) =>
           (ipc' # "aborted" /\ feed_data'.state = None)
      /\ ((KeyNext \/ KeyPrevious) /\ selected_view = "NewsView"
             /\ news_data.some /\ news_data.items = <<>>) =>
           (ipc' # "aborted" /\ news_data'.state = None)
    ]_vars


\* next applied n times
RECURSIVE NextTimes(_, _)
NextTimes(l, n) == IF n = 0 THEN l ELSE NextTimes(next(l), n - 1)

\* C11: on a non-empty list with cursor Some(i), next selects (i+1) mod len
\* and previous selects (i-1) mod len, neither panics, and each undoes the
\* other; with cursor None, next selects 0.
WrapsAround(l) ==
  Len(l.items) > 0 =>
    IF l.state = None
      THEN next(l) = [l EXCEPT !.state = 0]
      ELSE /\ next(l) = [l EXCEPT !.state = (l.state + 1) % Len(l.items)]
           /\ previous(l) = [l EXCEPT !.state = (l.state - 1) % Len(l.items)]
           /\ previous(next(l)) = l
           /\ next(previous(l)) = l
           /\ ~next_panics(l, overflow_checks)
           /\ ~previous_panics(l, overflow_checks)

C11_WrapAround ==
  /\ WrapsAround(feed_data)
  /\ news_data.some => WrapsAround(news_data)
  /\ WrapsAround(unselect(feed_data))

\* C11 witness: the cursor has been moved to the last of two feeds
C11_Witness ==
  /\ Len(feed_data.items) = 2
  /\ feed_data.state = 1
  /\ ipc = "lock"

\* C12: on a non-empty list, next applied len(items) times gives back the
\* cursor it started from, whether that cursor is None or Some(i).
CyclesBack(l) == Len(l.items) > 0 => NextTimes(l, Len(l.items)).state = l.state

C12_CycleFromAnyCursor ==
  /\ CyclesBack(feed_data)
  /\ news_data.some => CyclesBack(news_data)

\* C12 amended: from a cursor Some(i), next applied len(items) times gives
\* back Some(i); from None it gives Some(len - 1), never None.
CyclesBackFromSome(l) ==
  Len(l.items) > 0 =>
    IF l.state = None
      THEN NextTimes(l, Len(l.items)).state = Len(l.items) - 1
      ELSE NextTimes(l, Len(l.items)) = l

C12_CycleFromSome ==
  /\ CyclesBackFromSome(feed_data)
  /\ news_data.some => CyclesBackFromSome(news_data)

\* C12 witness: two feeds with the cursor on the first, after the cursor moved
C12_Witness ==
  /\ Len(feed_data.items) = 2
  /\ feed_data.state = 0
  /\ ipc = "lock"

\* C13: the toggle-view key swaps FeedView and NewsView whatever the state,
\* changes nothing else of App, and a second toggle restores the view.
C13_ToggleOnlySwapsView ==
  [][ KeySwitchView =>
        /\ selected_view \in {"FeedView", "NewsView"}
        /\ selected_view' \in {"FeedView", "NewsView"}
        /\ selected_view' # selected_view
        /\ switch_view(selected_view') = selected_view
        /\ UNCHANGED <<feed_data, news_data, selected_feed, is_loading,
                       news_index, stacking>>
    ]_vars

\* C13 witness: the view was toggled with a feed cursor set and nothing loaded
C13_Witness ==
  /\ selected_view = "NewsView"
  /\ feed_data.state = 1
  /\ ~news_data.some
  /\ stacking = 0
  /\ ipc = "lock"

C15_EnterWithoutSelection ==
  [][ (KeyEnterFeed /\ feed_data.state = None) =>
        /\ ipc' # "aborted"
        /\ UNCHANGED <<app, io_rx, nreq>>
    ]_vars

\* C16: when the Receiver is gone, dispatch leaves is_loading false, sends
\* nothing, changes nothing else of App, and the Input Loop goes on to its
\* next iteration.
C16_SendFailureNonFatal ==
  [][ (KeyEnterFeed /\ ~ViewFeedPanics /\ wpc = "dead") =>
        /\ ~is_loading'
        /\ io_rx' = io_rx
        /\ nreq' = nreq
        /\ ipc' = "lock"
        /\ UNCHANGED <<feed_data, news_data, selected_feed, selected_view,
                       news_index, stacking>>
    ]_vars

\* C16 witness: the only request sent killed the Worker with is_loading set,
\* and a later dispatch found the Receiver gone and cleared the flag
C16_Witness ==
  /\ wpc = "dead"
  /\ nreq = 1
  /\ ~is_loading
  /\ ipc = "lock"

\* C17: the Input Loop never owns the lock between the Worker's replacement
\* of news_data and its clearing of is_loading for the same request, so it
\* never draws the new document with is_loading still set by that request.
C17_MergeAndClearAtomic ==
  (result.kind = "ok" /\ wpc = "lock_clear") =>
    (lock # "input" /\ ipc \notin {"draw", "poll"})

\* C18: whenever the draw runs at depth > 0 with a document loaded,
\* news_index is an index into that document's items.
C18_RememberedIndexValid ==
  (ipc = "draw" /\ stacking > 0 /\ news_data.some) =>
    news_index < Len(news_data.items)

\* requests sent and not yet finished by the Worker
Outstanding == Len(io_rx) + (IF wpc \in {"recv", "dead"} THEN 0 ELSE 1)

\* C19: whenever is_loading is false the channel is empty and the Worker has
\* no request in flight.
C19_LoadingReflectsWork == ~is_loading => Outstanding = 0

\* C19 amended: is_loading false implies an empty channel and an idle Worker
\* for as long as no request is dispatched while an earlier one is still
\* queued or in flight: every other step preserves it.
LoadingTracks ==
  /\ Outstanding <= 1
  /\ ~is_loading => Outstanding = 0
  /\ wpc = "dead" => io_rx = <<>>

C19_LoadingReflectsSingleRequest ==
  [][ (LoadingTracks /\ ~(DispatchStep /\ Outstanding > 0)) => LoadingTracks' ]_vars

\* C19 witness: the only request sent has been completed and the flag is down
C19_Witness ==
  /\ nreq = 1
  /\ clears[1] = 1
  /\ ~is_loading
  /\ Outstanding = 0
  /\ news_data.some

\* C20: in NewsView with no document loaded no key ends the Input Loop,
\* cursor-next and cursor-previous change nothing of App, and Enter does not
\* raise the drill depth.
C20_NoDocumentKeysSafe ==
  [][ (ipc = "poll" /\ selected_view = "NewsView" /\ ~news_data.some) =>
        /\ ipc' # "aborted"
        /\ (KeyNext \/ KeyPrevious) => UNCHANGED app
        /\ KeyEnterNews => stacking' = stacking
    ]_vars

====
